---- MODULE Spec2Model ----
(***************************************************************************)
(* Round lifecycle controller of ArborTrail (src/App.tsx, lines 19-401):   *)
(* the App component's state, its handlers, and the provider requests the  *)
(* handlers leave in flight.  A handler that awaits a provider call is     *)
(* split at the await: the part before it is one action, and the arrival   *)
(* of the result (or of the failure) is another that runs the rest of the  *)
(* handler with the values the handler closed over.                        *)
(***************************************************************************)
EXTENDS Integers, Sequences, FiniteSets, TLC

\* ---- bounds ----
MaxPool == 3        \* longest pool the provider returns
MaxClock == 2       \* number of pools fetched successfully in one run
MaxScore == 2       \* correct guesses in one run
MaxFrames == 5      \* animation frames requested in one run

\* ---- values ----
NameList == <<"Oak", "Maple", "Birch", "Elm", "Ash", "Yew">>
Facts == {"fact0", "fact1"}
Difficulty == {"Easy", "Medium", "Hard"}
HabitatSets == {"habitatsA", "habitatsB"}   \* habitats arrays, by identity

DIFFICULTY_SELECTION == "DIFFICULTY_SELECTION"
LOADING == "LOADING"
GUESSING == "GUESSING"
RESULT == "RESULT"
ERROR == "ERROR"
GameStatus == {DIFFICULTY_SELECTION, LOADING, GUESSING, RESULT, ERROR}

\* a nullable value is a sequence of length 0 (null) or 1
Null == <<>>
Some(x) == <<x>>
Val(m) == m[1]

VARIABLES
    status,          \* useState<GameStatus>
    difficulty,      \* useState<Difficulty | null>
    currentRound,    \* useState<GameRound | null>
    pool,            \* useState<TreeData[]>
    score,           \* useState(0)
    selectedOption,  \* useState<string | null>
    isCorrect,       \* useState<boolean | null>
    loadingStep,     \* useState<string>
    isFactLoading,   \* useState(false)
    poolReqs,        \* fetchNewTrees calls awaited by initGame
    autumnReqs,      \* generateTreeImage calls awaited by startRound
    springReqs,      \* generateTreeImage calls awaited by handleGuess
    factReqs,        \* fetchNewFunFact calls awaited by handleRegenerateFact
    now,             \* Date.now() of the latest pool, as a tick count
    streak,          \* history: correct guesses so far, -1 once one was wrong
    apiKeyEffect,    \* the effect that looks at the API key: "pending", "done"
    globeMounted,    \* a Globe is rendered
    locations,       \* Globe's prop, Null while no Globe is rendered
    landData,        \* Globe's useState<any>(null)
    landFetch,       \* the d3.json call of the Globe: "idle", "pending", "done"
    closures,        \* runs of the render effect that started a loop, each
                     \* with its own rotation and animationFrameId
    currentEffect,   \* the run whose cleanup React holds, Null if it has none
    frames,          \* callbacks requestAnimationFrame holds
    nextFrameId,     \* the latest id requestAnimationFrame returned
    markers          \* the habitat markers on the canvas, as indices into the array

appVars == <<status, difficulty, currentRound, pool, score, selectedOption,
             isCorrect, loadingStep, isFactLoading, poolReqs, autumnReqs,
             springReqs, factReqs, now, streak, apiKeyEffect>>

globeVars == <<globeMounted, locations, landData, landFetch, closures,
               currentEffect, frames, nextFrameId, markers>>

vars == <<status, difficulty, currentRound, pool, score, selectedOption,
          isCorrect, loadingStep, isFactLoading, poolReqs, autumnReqs,
          springReqs, factReqs, now, streak, apiKeyEffect, globeMounted, locations, landData,
          landFetch, closures, currentEffect, frames, nextFrameId, markers>>

\* ---- sequences ----
Min(a, b) == IF a < b THEN a ELSE b

Remove(s, k) == [j \in 1..(Len(s) - 1) |-> IF j < k THEN s[j] ELSE s[j + 1]]

\* the labels of a list with their multiplicities
Labels(s) == [x \in {s[j] : j \in 1..Len(s)} |-> Cardinality({j \in 1..Len(s) : s[j] = x})]

\* .sort(() => 0.5 - Math.random()).slice(0, n): the comparator fixes no
\* order, so any n elements of s (all of them when s is shorter) can come
\* first; each draw is listed in the order of s, its own order being dropped
\* with that of the options (see OptionLists)
Sample(s, n) ==
    {[j \in 1..Min(n, Len(s)) |-> s[p[j]]] :
        p \in {q \in [1..Min(n, Len(s)) -> 1..Len(s)] :
                 \A a, b \in 1..Min(n, Len(s)) : a < b => q[a] < q[b]}}

\* s.findIndex(t => t.id === id), 0-based, -1 when no element matches; id is
\* Null for undefined, which is the id of no element
FindIndexOfId(s, id) ==
    IF \E j \in 1..Len(s) : Some(s[j].id) = id
    THEN (CHOOSE j \in 1..Len(s) :
             Some(s[j].id) = id /\ \A h \in 1..(j - 1) : Some(s[h].id) # id) - 1
    ELSE -1

\* ---- content provider ----
TreeId(t, i) == <<"tree", t, i - 1>>

\* one specimen of a pool parsed at time t, at 1-based position i; its
\* habitats array is named by one of HabitatSets (a Globe is never kept
\* from one specimen to another with the same name)
Tree(t, i, name) ==
    [id |-> TreeId(t, i),
     commonName |-> name,
     scientificName |-> <<"sci", name>>,
     autumnDescription |-> <<"autumn of", t, i - 1>>,
     springDescription |-> <<"spring of", t, i - 1>>,
     funFact |-> "fact0",
     habitats |-> IF i % 2 = 1 THEN "habitatsA" ELSE "habitatsB"]

\* The common names of a pool of n specimens, as indices into NameList: all
\* different, or all different except that the last specimen has the name of
\* the first.  The program only compares names for equality, so which names
\* they are does not matter.
NameRows(n) ==
    {[i \in 1..n |-> i]} \cup
    (IF n >= 2 THEN {[i \in 1..n |-> IF i = n THEN 1 ELSE i]} ELSE {})

\* what fetchNewTrees can resolve to at time t
Pools(t) ==
    UNION {{[i \in 1..n |-> Tree(t, i, NameList[nm[i]])] : nm \in NameRows(n)} : n \in 0..MaxPool}

\* what generateTreeImage resolves to
TreeImage(description, season) == <<"data:image/png", description, season>>

\* ---- loading captions ----
TrailStep(d) == <<"Stepping onto the trail", d>>
MarkersStep == <<"Isolating seasonal markers for the next specimen">>
SpringStep == <<"Waiting for the first light of spring">>

\* ---- what the rendered view offers (the handlers are reachable only ----
\* ---- through the controls of the view of the current status)      ----

\* the difficulty buttons, rendered only by the DIFFICULTY_SELECTION view
DifficultyButtonsShown == status = DIFFICULTY_SELECTION

\* the header logo offered by the loading view as well
TrailheadControlsShownInLoading == status # DIFFICULTY_SELECTION

\* the header logo and the "Return to Trailhead" button: part of the view
\* that is rendered when the status is neither DIFFICULTY_SELECTION nor LOADING
TrailheadControlsShown == status \notin {DIFFICULTY_SELECTION, LOADING}

\* the option buttons left live in the result panel as well
OptionButtonsStayLive ==
    /\ status \notin {DIFFICULTY_SELECTION, LOADING}
    /\ currentRound # Null
    /\ status \in {GUESSING, RESULT}

\* the option buttons: rendered in GUESSING, disabled once a choice is recorded
OptionButtonsEnabled ==
    /\ status \notin {DIFFICULTY_SELECTION, LOADING}
    /\ currentRound # Null
    /\ status = GUESSING
    /\ selectedOption = Null

\* the result panel, with its "Continue the Trail" / "New Specimen" button
ResultPanelShown ==
    /\ status \notin {DIFFICULTY_SELECTION, LOADING}
    /\ currentRound # Null
    /\ status = RESULT

\* the "New Fact" button: in the result panel of a correct guess, disabled
\* while a fact is loading
NewFactButtonEnabled ==
    /\ ResultPanelShown
    /\ isCorrect = Some(TRUE)
    /\ ~isFactLoading

\* the image the round shows
DisplayedImage ==
    IF isCorrect = Some(TRUE)
    THEN (IF Val(currentRound).springImageUrl # Null
          THEN Val(Val(currentRound).springImageUrl)
          ELSE Val(currentRound).autumnImageUrl)
    ELSE Val(currentRound).autumnImageUrl

\* ---- handlers ----

\* GUESSING entered as soon as the round is asked for
StartRoundEager(target, currentPool) ==
    /\ loadingStep' = MarkersStep
    /\ IF target = Null
       THEN /\ status' = ERROR
            /\ autumnReqs' = autumnReqs
       ELSE /\ status' = GUESSING
            /\ autumnReqs' = Append(autumnReqs,
                                    [target |-> Val(target), currentPool |-> currentPool])

\* startRound up to its await.  target is Null when the caller passed
\* undefined (trees[0] of an empty array): reading target.autumnDescription
\* then throws inside the try, and the catch sets ERROR.
StartRound(target, currentPool) ==
    /\ loadingStep' = MarkersStep
    /\ IF target = Null
       THEN /\ status' = ERROR
            /\ autumnReqs' = autumnReqs
       ELSE /\ status' = LOADING
            /\ autumnReqs' = Append(autumnReqs,
                                    [target |-> Val(target), currentPool |-> currentPool])

\* initGame up to its await
InitGame(selectedDifficulty) ==
    /\ difficulty' = Some(selectedDifficulty)
    /\ status' = LOADING
    /\ loadingStep' = TrailStep(selectedDifficulty)
    /\ poolReqs' = Append(poolReqs, [difficulty |-> selectedDifficulty])

\* a difficulty button is clicked
SelectDifficulty(d) ==
    /\ DifficultyButtonsShown
    /\ InitGame(d)
    /\ UNCHANGED <<currentRound, pool, score, selectedOption, isCorrect,
                   isFactLoading, autumnReqs, springReqs, factReqs, now, streak>>

\* the pool that arrived never stored
PoolArrivesKeepsOldPool(k, trees) ==
    /\ now < MaxClock
    /\ now' = now + 1
    /\ poolReqs' = Remove(poolReqs, k)
    /\ pool' = pool
    /\ StartRound(IF Len(trees) > 0 THEN Some(trees[1]) ELSE Null, trees)
    /\ UNCHANGED <<difficulty, currentRound, score, selectedOption, isCorrect,
                   isFactLoading, springReqs, factReqs, streak>>

\* startRound given the pool the App holds, not the one that arrived
PoolArrivesUsesHeldPool(k, trees) ==
    /\ now < MaxClock
    /\ now' = now + 1
    /\ poolReqs' = Remove(poolReqs, k)
    /\ pool' = trees
    /\ StartRound(IF Len(trees) > 0 THEN Some(trees[1]) ELSE Null, pool)
    /\ UNCHANGED <<difficulty, currentRound, score, selectedOption, isCorrect,
                   isFactLoading, springReqs, factReqs, streak>>

\* startRound leaving quietly when it is given no target
PoolArrivesMasksEmpty(k, trees) ==
    /\ now < MaxClock
    /\ now' = now + 1
    /\ poolReqs' = Remove(poolReqs, k)
    /\ pool' = trees
    /\ IF Len(trees) > 0
       THEN StartRound(Some(trees[1]), trees)
       ELSE UNCHANGED <<status, loadingStep, autumnReqs>>
    /\ UNCHANGED <<difficulty, currentRound, score, selectedOption, isCorrect,
                   isFactLoading, springReqs, factReqs, streak>>

\* initGame after its await: fetchNewTrees resolved with trees
PoolArrives(k, trees) ==
    /\ now < MaxClock
    /\ now' = now + 1
    /\ poolReqs' = Remove(poolReqs, k)
    /\ pool' = trees
    /\ StartRound(IF Len(trees) > 0 THEN Some(trees[1]) ELSE Null, trees)
    /\ UNCHANGED <<difficulty, currentRound, score, selectedOption, isCorrect,
                   isFactLoading, springReqs, factReqs, streak>>

\* the rejection only logged
PoolFailsSilently(k) ==
    /\ poolReqs' = Remove(poolReqs, k)
    /\ UNCHANGED <<status, difficulty, currentRound, pool, score, selectedOption,
                   isCorrect, loadingStep, isFactLoading, autumnReqs, springReqs,
                   factReqs, now, streak>>

\* initGame after its await: fetchNewTrees rejected
PoolFails(k) ==
    /\ poolReqs' = Remove(poolReqs, k)
    /\ status' = ERROR
    /\ UNCHANGED <<difficulty, currentRound, pool, score, selectedOption, isCorrect,
                   loadingStep, isFactLoading, autumnReqs, springReqs, factReqs,
                   now, streak>>

\* the distractor names startRound can draw for target from currentPool
Distractors(target, currentPool) ==
    LET NotTarget(t) == t.id # target.id
    IN {[j \in 1..Len(picked) |-> picked[j].commonName] :
           picked \in Sample(SelectSeq(currentPool, NotTarget), 2)}

\* The options startRound can build for target from currentPool.  The list
\* is [target.commonName, ...distractors] put in a random order by a second
\* sort; no handler reads the order, and the model keeps the labels with
\* their multiplicities.
OptionLists(target, currentPool) ==
    {Labels(<<target.commonName>> \o d) : d \in Distractors(target, currentPool)}

\* the choice of the previous round left in place
AutumnImageArrivesKeepsChoice(k, options) ==
    LET req == autumnReqs[k]
        autumnImg == TreeImage(req.target.autumnDescription, "autumn")
    IN /\ options \in OptionLists(req.target, req.currentPool)
       /\ autumnReqs' = Remove(autumnReqs, k)
       /\ currentRound' = Some([targetTree |-> req.target,
                                options |-> options,
                                autumnImageUrl |-> autumnImg,
                                springImageUrl |-> Null])
       /\ status' = GUESSING
       /\ UNCHANGED <<difficulty, pool, score, loadingStep, isFactLoading,
                      poolReqs, springReqs, factReqs, now, streak,
                      selectedOption, isCorrect>>

\* startRound after its await: generateTreeImage resolved
AutumnImageArrives(k, options) ==
    LET req == autumnReqs[k]
        autumnImg == TreeImage(req.target.autumnDescription, "autumn")
    IN /\ options \in OptionLists(req.target, req.currentPool)
       /\ autumnReqs' = Remove(autumnReqs, k)
       /\ currentRound' = Some([targetTree |-> req.target,
                                options |-> options,
                                autumnImageUrl |-> autumnImg,
                                springImageUrl |-> Null])
       /\ selectedOption' = Null
       /\ isCorrect' = Null
       /\ status' = GUESSING
       /\ UNCHANGED <<difficulty, pool, score, loadingStep, isFactLoading,
                      poolReqs, springReqs, factReqs, now, streak>>

\* the rejection passed over: the round opens for guessing all the same
AutumnImageFailsToGuessing(k) ==
    /\ autumnReqs' = Remove(autumnReqs, k)
    /\ status' = GUESSING
    /\ UNCHANGED <<difficulty, currentRound, pool, score, selectedOption, isCorrect,
                   loadingStep, isFactLoading, poolReqs, springReqs, factReqs,
                   now, streak>>

\* startRound after its await: generateTreeImage rejected
AutumnImageFails(k) ==
    /\ autumnReqs' = Remove(autumnReqs, k)
    /\ status' = ERROR
    /\ UNCHANGED <<difficulty, currentRound, pool, score, selectedOption, isCorrect,
                   loadingStep, isFactLoading, poolReqs, springReqs, factReqs,
                   now, streak>>

\* every choice taken for the target's name
CorrectWhatever(choice, round) == TRUE

\* choice === currentRound.targetTree.commonName
Correct(choice, round) == choice = round.targetTree.commonName

\* the score raised by two
NextScoreTwice(prev) == prev + 2

\* the score left as it was
NextScoreKept(prev) == prev

\* setScore(prev => prev + 1)
NextScore(prev) == prev + 1

\* the after image asked for whatever the choice
HandleGuessAlwaysReveals(choice) ==
    /\ OptionButtonsEnabled
    /\ choice \in DOMAIN Val(currentRound).options
    /\ currentRound # Null
    /\ selectedOption' = Some(choice)
    /\ isCorrect' = Some(Correct(choice, Val(currentRound)))
    /\ score < MaxScore
    /\ score' = IF Correct(choice, Val(currentRound)) THEN NextScore(score) ELSE score
    /\ streak' = IF choice # Val(currentRound).targetTree.commonName THEN -1
                  ELSE IF streak >= 0 THEN streak + 1 ELSE streak
    /\ status' = LOADING
    /\ loadingStep' = SpringStep
    /\ springReqs' = Append(springReqs,
           [description |-> Val(currentRound).targetTree.springDescription])
    /\ UNCHANGED <<difficulty, currentRound, pool, isFactLoading, poolReqs,
                   autumnReqs, factReqs, now>>

\* handleGuess up to its await (all of it for a wrong choice); the click is
\* on one of the rendered option buttons
HandleGuess(choice) ==
    /\ OptionButtonsEnabled
    /\ choice \in DOMAIN Val(currentRound).options
    /\ currentRound # Null
    /\ selectedOption' = Some(choice)
    /\ isCorrect' = Some(Correct(choice, Val(currentRound)))
    /\ IF Correct(choice, Val(currentRound))
       THEN /\ score < MaxScore
            /\ score' = NextScore(score)
            /\ streak' = IF choice # Val(currentRound).targetTree.commonName THEN -1
                          ELSE IF streak >= 0 THEN streak + 1 ELSE streak
            /\ status' = LOADING
            /\ loadingStep' = SpringStep
            /\ springReqs' = Append(springReqs,
                   [description |-> Val(currentRound).targetTree.springDescription])
       ELSE /\ status' = RESULT
            /\ streak' = IF choice # Val(currentRound).targetTree.commonName THEN -1
                          ELSE IF streak >= 0 THEN streak + 1 ELSE streak
            /\ UNCHANGED <<score, loadingStep, springReqs>>
    /\ UNCHANGED <<difficulty, currentRound, pool, isFactLoading, poolReqs,
                   autumnReqs, factReqs, now>>

\* the round left without the after image
WithoutSpringImage(prev, springImg) == prev

\* setCurrentRound(prev => prev ? { ...prev, springImageUrl: springImg } : null)
WithSpringImage(prev, springImg) ==
    IF prev # Null
    THEN Some([Val(prev) EXCEPT !.springImageUrl = Some(springImg)])
    ELSE Null

\* handleGuess after its await: generateTreeImage resolved
SpringImageArrives(k) ==
    /\ springReqs' = Remove(springReqs, k)
    /\ currentRound' = WithSpringImage(currentRound,
                                       TreeImage(springReqs[k].description, "spring"))
    /\ status' = RESULT
    /\ UNCHANGED <<difficulty, pool, score, selectedOption, isCorrect, loadingStep,
                   isFactLoading, poolReqs, autumnReqs, factReqs, now, streak>>

\* the rejection surfaced as ERROR, as startRound's catch does
SpringImageFailsToError(k) ==
    /\ springReqs' = Remove(springReqs, k)
    /\ status' = ERROR
    /\ UNCHANGED <<difficulty, currentRound, pool, score, selectedOption, isCorrect,
                   loadingStep, isFactLoading, poolReqs, autumnReqs, factReqs,
                   now, streak>>

\* the increment taken back when the after image is not obtained
SpringImageFailsRollsBack(k) ==
    /\ springReqs' = Remove(springReqs, k)
    /\ status' = RESULT
    /\ score' = score - 1
    /\ UNCHANGED <<difficulty, currentRound, pool, selectedOption, isCorrect,
                   loadingStep, isFactLoading, poolReqs, autumnReqs, factReqs,
                   now, streak>>

\* handleGuess after its await: generateTreeImage rejected
SpringImageFails(k) ==
    /\ springReqs' = Remove(springReqs, k)
    /\ status' = RESULT
    /\ UNCHANGED <<difficulty, currentRound, pool, score, selectedOption, isCorrect,
                   loadingStep, isFactLoading, poolReqs, autumnReqs, factReqs,
                   now, streak>>

\* neither the button nor the handler looks at isFactLoading
HandleRegenerateFactUnguarded ==
    /\ ResultPanelShown
    /\ isCorrect = Some(TRUE)
    /\ isFactLoading' = TRUE
    /\ factReqs' = Append(factReqs,
                          [id |-> Val(currentRound).targetTree.id,
                           commonName |-> Val(currentRound).targetTree.commonName,
                           scientificName |-> Val(currentRound).targetTree.scientificName])
    /\ UNCHANGED <<status, difficulty, currentRound, pool, score, selectedOption,
                   isCorrect, loadingStep, poolReqs, autumnReqs, springReqs,
                   now, streak>>

\* handleRegenerateFact up to its await
HandleRegenerateFact ==
    /\ NewFactButtonEnabled
    /\ ~(currentRound = Null \/ isFactLoading)
    /\ isFactLoading' = TRUE
    /\ factReqs' = Append(factReqs,
                          [id |-> Val(currentRound).targetTree.id,
                           commonName |-> Val(currentRound).targetTree.commonName,
                           scientificName |-> Val(currentRound).targetTree.scientificName])
    /\ UNCHANGED <<status, difficulty, currentRound, pool, score, selectedOption,
                   isCorrect, loadingStep, poolReqs, autumnReqs, springReqs,
                   now, streak>>

\* the target rebuilt with a habitats array of its own
WithFactCopiesHabitats(prev, newFact) ==
    IF prev # Null
    THEN Some([Val(prev) EXCEPT
                  !.targetTree.funFact = newFact,
                  !.targetTree.habitats = IF @ = "habitatsA" THEN "habitatsB"
                                          ELSE "habitatsA"])
    ELSE Null

\* setCurrentRound(prev => prev ? { ...prev, targetTree: { ...prev.targetTree,
\* funFact: newFact } } : null)
WithFact(prev, newFact) ==
    IF prev # Null
    THEN Some([Val(prev) EXCEPT !.targetTree.funFact = newFact])
    ELSE Null

\* the new fact written to the specimen of the pool as well
FactArrivesWritesPool(k, newFact) ==
    /\ factReqs' = Remove(factReqs, k)
    /\ currentRound' = WithFact(currentRound, newFact)
    /\ pool' = [i \in 1..Len(pool) |->
                  IF currentRound # Null /\ pool[i].id = Val(currentRound).targetTree.id
                  THEN [pool[i] EXCEPT !.funFact = newFact]
                  ELSE pool[i]]
    /\ isFactLoading' = FALSE
    /\ UNCHANGED <<status, difficulty, score, selectedOption, isCorrect,
                   loadingStep, poolReqs, autumnReqs, springReqs, now, streak>>

\* handleRegenerateFact after its await: fetchNewFunFact resolved
FactArrives(k, newFact) ==
    /\ factReqs' = Remove(factReqs, k)
    /\ currentRound' = WithFact(currentRound, newFact)
    /\ isFactLoading' = FALSE
    /\ UNCHANGED <<status, difficulty, pool, score, selectedOption, isCorrect,
                   loadingStep, poolReqs, autumnReqs, springReqs, now, streak>>

\* no finally: the flag cleared on success only
FactFailsLeavesFlag(k) ==
    /\ factReqs' = Remove(factReqs, k)
    /\ UNCHANGED <<status, difficulty, currentRound, pool, score, selectedOption,
                   isCorrect, loadingStep, poolReqs, autumnReqs, springReqs,
                   now, streak, isFactLoading>>

\* the fact blanked when no new one is obtained
FactFailsBlanksFact(k) ==
    /\ factReqs' = Remove(factReqs, k)
    /\ currentRound' = WithFact(currentRound, "")
    /\ isFactLoading' = FALSE
    /\ UNCHANGED <<status, difficulty, pool, score, selectedOption, isCorrect,
                   loadingStep, poolReqs, autumnReqs, springReqs, now, streak>>

\* handleRegenerateFact after its await: fetchNewFunFact rejected
FactFails(k) ==
    /\ factReqs' = Remove(factReqs, k)
    /\ isFactLoading' = FALSE
    /\ UNCHANGED <<status, difficulty, currentRound, pool, score, selectedOption,
                   isCorrect, loadingStep, poolReqs, autumnReqs, springReqs,
                   now, streak>>

\* currentRound?.targetTree.id
CurrentTargetId ==
    IF currentRound # Null THEN Some(Val(currentRound).targetTree.id) ELSE Null

\* the index after the next one
NextIdxSkips == FindIndexOfId(pool, CurrentTargetId) + 2

\* pool.findIndex(t => t.id === currentRound?.targetTree.id) + 1, 0-based
NextIdx == FindIndexOfId(pool, CurrentTargetId) + 1

\* nothing done after the last specimen of the pool
NextRoundStopsAtEnd ==
    /\ ResultPanelShown
    /\ IF NextIdx < Len(pool)
       THEN /\ StartRound(Some(pool[NextIdx + 1]), pool)
            /\ UNCHANGED <<difficulty, poolReqs>>
       ELSE UNCHANGED <<status, loadingStep, difficulty, poolReqs, autumnReqs>>
    /\ UNCHANGED <<currentRound, pool, score, selectedOption, isCorrect,
                   isFactLoading, springReqs, factReqs, now, streak>>

\* nextRound: the button of the result panel is clicked
NextRound ==
    /\ ResultPanelShown
    /\ IF NextIdx < Len(pool)
       THEN /\ StartRound(Some(pool[NextIdx + 1]), pool)
            /\ UNCHANGED <<difficulty, poolReqs>>
       ELSE IF difficulty # Null
            THEN /\ InitGame(Val(difficulty))
                 /\ UNCHANGED autumnReqs
            ELSE UNCHANGED <<status, loadingStep, difficulty, poolReqs, autumnReqs>>
    /\ UNCHANGED <<currentRound, pool, score, selectedOption, isCorrect,
                   isFactLoading, springReqs, factReqs, now, streak>>

\* the header logo or "Return to Trailhead" is clicked:
\* setStatus(GameStatus.DIFFICULTY_SELECTION)
ReturnToDifficultySelection ==
    /\ TrailheadControlsShown
    /\ status' = DIFFICULTY_SELECTION
    /\ UNCHANGED <<difficulty, currentRound, pool, score, selectedOption, isCorrect,
                   loadingStep, isFactLoading, poolReqs, autumnReqs, springReqs,
                   factReqs, now, streak>>

\* ---- Globe ----
\* The component by itself: what mounts it, what swaps its prop and when the
\* browser runs a frame are left open.

\* Angles are counted in steps of 0.25 degrees.
QuarterTurn == 360    \* Math.PI / 2
Tilt == 60            \* the latitude the projection is centred on: -(-15)

\* the habitats arrays: points on the equator and at the poles
Habitats(locs) ==
    IF locs = "habitatsA"
    THEN <<[lat |-> 0, lng |-> QuarterTurn - 2],
           [lat |-> 0, lng |-> -QuarterTurn - 2],
           [lat |-> QuarterTurn, lng |-> 0]>>
    ELSE <<[lat |-> -QuarterTurn, lng |-> 40],
           [lat |-> 0, lng |-> 2 * QuarterTurn - 1]>>

\* projection([loc.lng, loc.lat]): d3 rotates the point and applies the
\* orthographic formula; clipping belongs to the path stream, so a point
\* is returned for every location
Projection(loc, rotation) == Some(<<loc.lng + rotation, loc.lat>>)

\* d3.geoDistance(a, b) against Math.PI / 2, as -1 (less), 0 (equal) or 1
\* (more), for a on the equator or at a pole and b strictly between the
\* equator and the north pole: the cosine of the distance is
\* sin(a.lat) sin(b.lat) + cos(a.lat) cos(b.lat) cos(a.lng - b.lng), whose
\* sign is that of sin(a.lat) at a pole and of cos(a.lng - b.lng) on the equator
GeoDistanceToQuarterTurn(a, b) ==
    IF a.lat = QuarterTurn THEN -1
    ELSE IF a.lat = -QuarterTurn THEN 1
    ELSE LET d == (a.lng - b.lng) % (4 * QuarterTurn)
         IN  IF d < QuarterTurn \/ d > 3 * QuarterTurn THEN -1
             ELSE IF d = QuarterTurn \/ d = 3 * QuarterTurn THEN 0
             ELSE 1

\* the marker also drawn at a distance of exactly Math.PI / 2
MarkerDrawnUpToQuarterTurn(loc, rotation) ==
    /\ Projection(loc, rotation) # Null
    /\ GeoDistanceToQuarterTurn(loc, [lng |-> -rotation, lat |-> Tilt]) <= 0

\* the test render() makes for a location once projection.rotate is
\* [rotation, -15]: coords is set and
\* d3.geoDistance(geoPoint, [-rotate()[0], -rotate()[1]]) < Math.PI / 2
MarkerDrawn(loc, rotation) ==
    /\ Projection(loc, rotation) # Null
    /\ GeoDistanceToQuarterTurn(loc, [lng |-> -rotation, lat |-> Tilt]) < 0

\* the markers render() leaves on the cleared canvas
Render(locs, rotation) ==
    {i \in 1..Len(Habitats(locs)) : MarkerDrawn(Habitats(locs)[i], rotation)}

\* cancelAnimationFrame(id) on the callbacks held
CancelAnimationFrame(held, id) == {f \in held : f.id # id}

\* a cleanup that cancels nothing
CleanupCancelsNothing == frames

\* the cleanup of the run React holds: cancelAnimationFrame(animationFrameId),
\* with the animationFrameId of that run
Cleanup ==
    IF currentEffect # Null
    THEN CancelAnimationFrame(frames, closures[Val(currentEffect)].animationFrameId)
    ELSE frames

\* the render effect, run with the callbacks held: without land data it
\* returns at once and leaves no cleanup; with it, it sets rotation to 0
\* and calls render(), which advances the rotation and requests a frame
RenderEffect(held, land, locs) ==
    IF land = Null
    THEN /\ currentEffect' = Null
         /\ frames' = held
         /\ UNCHANGED <<closures, nextFrameId, markers>>
    ELSE /\ nextFrameId < MaxFrames
         /\ nextFrameId' = nextFrameId + 1
         /\ closures' = Append(closures, [rotation |-> 1,
                                          animationFrameId |-> nextFrameId + 1,
                                          locations |-> locs])
         /\ currentEffect' = Some(Len(closures) + 1)
         /\ frames' = held \cup {[id |-> nextFrameId + 1, effect |-> Len(closures) + 1]}
         /\ markers' = Render(locs, 1)

\* a Globe is rendered with a habitats array: the fetch effect asks for the
\* land, the render effect finds no land data
GlobeMount(locs) ==
    /\ ~globeMounted
    /\ globeMounted' = TRUE
    /\ locations' = Some(locs)
    /\ landData' = Null
    /\ landFetch' = "pending"
    /\ RenderEffect(frames, Null, locs)

\* d3.json resolved with data: setLandData(land), and the render effect
\* runs again after the cleanup of its previous run
LandArrives ==
    /\ globeMounted
    /\ landFetch = "pending"
    /\ landFetch' = "done"
    /\ landData' = Some("land")
    /\ RenderEffect(Cleanup, Some("land"), Val(locations))
    /\ UNCHANGED <<globeMounted, locations>>

\* d3.json resolved with nothing, or rejected: no state is set
LandFails ==
    /\ globeMounted
    /\ landFetch = "pending"
    /\ landFetch' = "done"
    /\ UNCHANGED <<globeMounted, locations, landData, closures, currentEffect,
                   frames, nextFrameId, markers>>

\* the parent renders the Globe with another habitats array: the cleanup of
\* the previous run, then the render effect
SwapLocations(locs) ==
    /\ globeMounted
    /\ Some(locs) # locations
    /\ locations' = Some(locs)
    /\ RenderEffect(Cleanup, landData, locs)
    /\ UNCHANGED <<globeMounted, landData, landFetch>>

\* render() with the rotation declared inside it: every frame starts from 0
FrameResetsRotation(f) ==
    /\ f \in frames
    /\ nextFrameId < MaxFrames
    /\ nextFrameId' = nextFrameId + 1
    /\ closures' = [closures EXCEPT ![f.effect].rotation = 1,
                                    ![f.effect].animationFrameId = nextFrameId + 1]
    /\ frames' = (frames \ {f}) \cup {[id |-> nextFrameId + 1, effect |-> f.effect]}
    /\ markers' = Render(closures[f.effect].locations, closures'[f.effect].rotation)
    /\ UNCHANGED <<globeMounted, locations, landData, landFetch, currentEffect>>

\* the browser runs a callback it holds: render() of the run that requested
\* it advances that run's rotation and requests the next frame
Frame(f) ==
    /\ f \in frames
    /\ nextFrameId < MaxFrames
    /\ nextFrameId' = nextFrameId + 1
    /\ closures' = [closures EXCEPT ![f.effect].rotation = @ + 1,
                                    ![f.effect].animationFrameId = nextFrameId + 1]
    /\ frames' = (frames \ {f}) \cup {[id |-> nextFrameId + 1, effect |-> f.effect]}
    /\ markers' = Render(closures[f.effect].locations, closures'[f.effect].rotation)
    /\ UNCHANGED <<globeMounted, locations, landData, landFetch, currentEffect>>

\* the Globe removed without its cleanup being run
GlobeUnmountWithoutCleanup ==
    /\ globeMounted
    /\ globeMounted' = FALSE
    /\ locations' = Null
    /\ landData' = Null
    /\ landFetch' = "idle"
    /\ currentEffect' = Null
    /\ frames' = frames
    /\ markers' = {}
    /\ UNCHANGED <<closures, nextFrameId>>

\* the Globe is no longer rendered: the cleanup of the run React holds; a
\* fetch still pending sets the state of a component that is gone
GlobeUnmount ==
    /\ globeMounted
    /\ globeMounted' = FALSE
    /\ locations' = Null
    /\ landData' = Null
    /\ landFetch' = "idle"
    /\ currentEffect' = Null
    /\ frames' = Cleanup
    /\ markers' = {}
    /\ UNCHANGED <<closures, nextFrameId>>

\* no Globe is rendered
GlobeInit ==
    /\ globeMounted = FALSE
    /\ locations = Null
    /\ landData = Null
    /\ landFetch = "idle"
    /\ closures = <<>>
    /\ currentEffect = Null
    /\ frames = {}
    /\ nextFrameId = 0
    /\ markers = {}

Init ==
    /\ status = DIFFICULTY_SELECTION
    /\ difficulty = Null
    /\ currentRound = Null
    /\ pool = <<>>
    /\ score = 0
    /\ selectedOption = Null
    /\ isCorrect = Null
    /\ loadingStep = <<"">>
    /\ isFactLoading = FALSE
    /\ poolReqs = <<>>
    /\ autumnReqs = <<>>
    /\ springReqs = <<>>
    /\ factReqs = <<>>
    /\ now = 0
    /\ streak = 0
    /\ apiKeyEffect = "done"   \* the modular App has no such effect
    /\ GlobeInit

Next ==
    \/ /\ \E d \in Difficulty : SelectDifficulty(d)
       /\ UNCHANGED <<globeVars, apiKeyEffect>>
    \/ /\ \E k \in 1..Len(poolReqs) : \E trees \in Pools(now + 1) : PoolArrives(k, trees)
       /\ UNCHANGED <<globeVars, apiKeyEffect>>
    \/ /\ \E k \in 1..Len(poolReqs) : PoolFails(k)
       /\ UNCHANGED <<globeVars, apiKeyEffect>>
    \/ /\ \E k \in 1..Len(autumnReqs) :
             \E options \in OptionLists(autumnReqs[k].target, autumnReqs[k].currentPool) :
                AutumnImageArrives(k, options)
       /\ UNCHANGED <<globeVars, apiKeyEffect>>
    \/ /\ \E k \in 1..Len(autumnReqs) : AutumnImageFails(k)
       /\ UNCHANGED <<globeVars, apiKeyEffect>>
    \/ /\ \E j \in 1..Len(NameList) : HandleGuess(NameList[j])
       /\ UNCHANGED <<globeVars, apiKeyEffect>>
    \/ /\ \E k \in 1..Len(springReqs) : SpringImageArrives(k)
       /\ UNCHANGED <<globeVars, apiKeyEffect>>
    \/ /\ \E k \in 1..Len(springReqs) : SpringImageFails(k)
       /\ UNCHANGED <<globeVars, apiKeyEffect>>
    \/ /\ HandleRegenerateFact
       /\ UNCHANGED <<globeVars, apiKeyEffect>>
    \/ /\ \E k \in 1..Len(factReqs) : \E newFact \in Facts : FactArrives(k, newFact)
       /\ UNCHANGED <<globeVars, apiKeyEffect>>
    \/ /\ \E k \in 1..Len(factReqs) : FactFails(k)
       /\ UNCHANGED <<globeVars, apiKeyEffect>>
    \/ /\ NextRound
       /\ UNCHANGED <<globeVars, apiKeyEffect>>
    \/ /\ ReturnToDifficultySelection
       /\ UNCHANGED <<globeVars, apiKeyEffect>>

Spec == Init /\ [][Next]_vars

\* the provider answers a fetchNewTrees call, one way or the other
PoolRequestEnds ==
    /\ \/ \E k \in 1..Len(poolReqs) : \E trees \in Pools(now + 1) : PoolArrives(k, trees)
       \/ \E k \in 1..Len(poolReqs) : PoolFails(k)
    /\ UNCHANGED <<globeVars, apiKeyEffect>>

\* the provider answers a generateTreeImage call of startRound
AutumnRequestEnds ==
    /\ \/ \E k \in 1..Len(autumnReqs) :
             \E options \in OptionLists(autumnReqs[k].target, autumnReqs[k].currentPool) :
                AutumnImageArrives(k, options)
       \/ \E k \in 1..Len(autumnReqs) : AutumnImageFails(k)
    /\ UNCHANGED <<globeVars, apiKeyEffect>>

\* the App with a provider that answers every pool and before-image call
SpecLive ==
    /\ Init
    /\ [][Next]_vars
    /\ WF_vars(PoolRequestEnds)
    /\ WF_vars(AutumnRequestEnds)

\* ---- the single-file build of the App (second half of App.tsx) ----
\* Its initGame, startRound, handleGuess and nextRound are those above but
\* for the wording of the captions; it has no fact regeneration, it checks
\* the API key when mounted, and it renders a screen of its own for ERROR.

\* the header logo: part of the view rendered when the status is none of
\* ERROR, DIFFICULTY_SELECTION and LOADING; the ERROR screen has no control
StandaloneTrailheadControlsShown ==
    status \notin {ERROR, DIFFICULTY_SELECTION, LOADING}

\* the header logo is clicked: setStatus(GameStatus.DIFFICULTY_SELECTION)
StandaloneReturn ==
    /\ StandaloneTrailheadControlsShown
    /\ status' = DIFFICULTY_SELECTION
    /\ UNCHANGED <<difficulty, currentRound, pool, score, selectedOption, isCorrect,
                   loadingStep, isFactLoading, poolReqs, autumnReqs, springReqs,
                   factReqs, now, streak>>

\* useEffect(() => { if (!API_KEY || API_KEY === 'API_KEY_PLACEHOLDER')
\* setStatus(GameStatus.ERROR); }, []): run once, after the first render and
\* before any click is handled
ApiKeyEffect(keyPresent) ==
    /\ apiKeyEffect = "pending"
    /\ apiKeyEffect' = "done"
    /\ status' = IF keyPresent THEN status ELSE ERROR
    /\ UNCHANGED <<difficulty, currentRound, pool, score, selectedOption, isCorrect,
                   loadingStep, isFactLoading, poolReqs, autumnReqs, springReqs,
                   factReqs, now, streak>>

\* the first render, before the effect that looks at the API key
StandaloneInit ==
    /\ status = DIFFICULTY_SELECTION
    /\ difficulty = Null
    /\ currentRound = Null
    /\ pool = <<>>
    /\ score = 0
    /\ selectedOption = Null
    /\ isCorrect = Null
    /\ loadingStep = <<"">>
    /\ isFactLoading = FALSE
    /\ poolReqs = <<>>
    /\ autumnReqs = <<>>
    /\ springReqs = <<>>
    /\ factReqs = <<>>
    /\ now = 0
    /\ streak = 0
    /\ apiKeyEffect = "pending"
    /\ GlobeInit

StandaloneNext ==
    \/ /\ \E keyPresent \in BOOLEAN : ApiKeyEffect(keyPresent)
       /\ UNCHANGED globeVars
    \/ /\ \E d \in Difficulty : SelectDifficulty(d)
       /\ apiKeyEffect = "done"
       /\ UNCHANGED <<globeVars, apiKeyEffect>>
    \/ /\ \E k \in 1..Len(poolReqs) : \E trees \in Pools(now + 1) : PoolArrives(k, trees)
       /\ apiKeyEffect = "done"
       /\ UNCHANGED <<globeVars, apiKeyEffect>>
    \/ /\ \E k \in 1..Len(poolReqs) : PoolFails(k)
       /\ apiKeyEffect = "done"
       /\ UNCHANGED <<globeVars, apiKeyEffect>>
    \/ /\ \E k \in 1..Len(autumnReqs) :
             \E options \in OptionLists(autumnReqs[k].target, autumnReqs[k].currentPool) :
                AutumnImageArrives(k, options)
       /\ apiKeyEffect = "done"
       /\ UNCHANGED <<globeVars, apiKeyEffect>>
    \/ /\ \E k \in 1..Len(autumnReqs) : AutumnImageFails(k)
       /\ apiKeyEffect = "done"
       /\ UNCHANGED <<globeVars, apiKeyEffect>>
    \/ /\ \E j \in 1..Len(NameList) : HandleGuess(NameList[j])
       /\ apiKeyEffect = "done"
       /\ UNCHANGED <<globeVars, apiKeyEffect>>
    \/ /\ \E k \in 1..Len(springReqs) : SpringImageArrives(k)
       /\ apiKeyEffect = "done"
       /\ UNCHANGED <<globeVars, apiKeyEffect>>
    \/ /\ \E k \in 1..Len(springReqs) : SpringImageFails(k)
       /\ apiKeyEffect = "done"
       /\ UNCHANGED <<globeVars, apiKeyEffect>>
    \/ /\ NextRound
       /\ apiKeyEffect = "done"
       /\ UNCHANGED <<globeVars, apiKeyEffect>>
    \/ /\ StandaloneReturn
       /\ apiKeyEffect = "done"
       /\ UNCHANGED <<globeVars, apiKeyEffect>>

SpecStandalone == StandaloneInit /\ [][StandaloneNext]_vars

\* the Globe by itself, beside an App that does nothing
GlobeNext ==
    \/ /\ \E locs \in HabitatSets : GlobeMount(locs)
       /\ UNCHANGED appVars
    \/ /\ LandArrives
       /\ UNCHANGED appVars
    \/ /\ LandFails
       /\ UNCHANGED appVars
    \/ /\ \E locs \in HabitatSets : SwapLocations(locs)
       /\ UNCHANGED appVars
    \/ /\ \E f \in frames : Frame(f)
       /\ UNCHANGED appVars
    \/ /\ GlobeUnmount
       /\ UNCHANGED appVars

SpecGlobe == Init /\ [][GlobeNext]_vars

\* ---- the App with its Globe ----

\* the Globe in the result panel whatever the verdict
GlobeShownInAnyResult == ResultPanelShown

\* the Globe is part of the result panel of a correct guess
GlobeShown == ResultPanelShown /\ isCorrect = Some(TRUE)

\* React renders the App after a handler's updates: the Globe is mounted
\* when it enters the view, removed when it leaves it, and given the
\* habitats array of the round's target as its locations prop
Rerender ==
    IF GlobeShown' /\ ~globeMounted
    THEN GlobeMount(Val(currentRound').targetTree.habitats)
    ELSE IF ~GlobeShown' /\ globeMounted
    THEN GlobeUnmount
    ELSE IF GlobeShown' /\ Some(Val(currentRound').targetTree.habitats) # locations
    THEN SwapLocations(Val(currentRound').targetTree.habitats)
    ELSE UNCHANGED globeVars

AppGlobeNext ==
    \/ /\ \E d \in Difficulty : SelectDifficulty(d)
       /\ Rerender
       /\ UNCHANGED apiKeyEffect
    \/ /\ \E k \in 1..Len(poolReqs) : \E trees \in Pools(now + 1) : PoolArrives(k, trees)
       /\ Rerender
       /\ UNCHANGED apiKeyEffect
    \/ /\ \E k \in 1..Len(poolReqs) : PoolFails(k)
       /\ Rerender
       /\ UNCHANGED apiKeyEffect
    \/ /\ \E k \in 1..Len(autumnReqs) :
             \E options \in OptionLists(autumnReqs[k].target, autumnReqs[k].currentPool) :
                AutumnImageArrives(k, options)
       /\ Rerender
       /\ UNCHANGED apiKeyEffect
    \/ /\ \E k \in 1..Len(autumnReqs) : AutumnImageFails(k)
       /\ Rerender
       /\ UNCHANGED apiKeyEffect
    \/ /\ \E j \in 1..Len(NameList) : HandleGuess(NameList[j])
       /\ Rerender
       /\ UNCHANGED apiKeyEffect
    \/ /\ \E k \in 1..Len(springReqs) : SpringImageArrives(k)
       /\ Rerender
       /\ UNCHANGED apiKeyEffect
    \/ /\ \E k \in 1..Len(springReqs) : SpringImageFails(k)
       /\ Rerender
       /\ UNCHANGED apiKeyEffect
    \/ /\ HandleRegenerateFact
       /\ Rerender
       /\ UNCHANGED apiKeyEffect
    \/ /\ \E k \in 1..Len(factReqs) : \E newFact \in Facts : FactArrives(k, newFact)
       /\ Rerender
       /\ UNCHANGED apiKeyEffect
    \/ /\ \E k \in 1..Len(factReqs) : FactFails(k)
       /\ Rerender
       /\ UNCHANGED apiKeyEffect
    \/ /\ NextRound
       /\ Rerender
       /\ UNCHANGED apiKeyEffect
    \/ /\ ReturnToDifficultySelection
       /\ Rerender
       /\ UNCHANGED apiKeyEffect
    \/ /\ LandArrives
       /\ UNCHANGED appVars
    \/ /\ LandFails
       /\ UNCHANGED appVars
    \/ /\ \E f \in frames : Frame(f)
       /\ UNCHANGED appVars

SpecAppGlobe == Init /\ [][AppGlobeNext]_vars

\* ---- properties ----

\* number of labels of an option list, counted with multiplicity
Count(options) ==
    LET RECURSIVE Sum(_)
        Sum(S) == IF S = {} THEN 0
                  ELSE LET x == CHOOSE y \in S : TRUE IN options[x] + Sum(S \ {x})
    IN Sum(DOMAIN options)

NoDuplicate(options) == \A x \in DOMAIN options : options[x] = 1

Occurrences(options, x) == IF x \in DOMAIN options THEN options[x] ELSE 0

TargetName == Val(currentRound).targetTree.commonName

\* C1: for a pool of 3 or more specimens, the options of a round that has
\* just started are exactly 3 pairwise distinct labels, exactly one of them
\* the target's common name, also when two specimens share a common name.
C1_ThreeDistinctOptions ==
    (status = GUESSING /\ Len(pool) >= 3) =>
        /\ Count(Val(currentRound).options) = 3
        /\ NoDuplicate(Val(currentRound).options)
        /\ Occurrences(Val(currentRound).options, TargetName) = 1

\* C2: for a pool of 1 or 2 specimens, the options of a round that has just
\* started are as many labels as the pool has specimens, with no duplicate
\* and the target's common name exactly once.
C2_SmallPoolOptions ==
    (status = GUESSING /\ Len(pool) \in {1, 2}) =>
        /\ Count(Val(currentRound).options) = Len(pool)
        /\ NoDuplicate(Val(currentRound).options)
        /\ Occurrences(Val(currentRound).options, TargetName) = 1

\* C3: a fact response that was requested for the target of another round
\* than the current one leaves the current round as it is.
C3_StaleFactDiscarded ==
    [][\A k \in 1..Len(factReqs) :
          (/\ factReqs' = Remove(factReqs, k)
           /\ currentRound # Null
           /\ factReqs[k].id # Val(currentRound).targetTree.id)
          => currentRound' = currentRound]_vars

\* C4: a return to difficulty selection leaves the pool empty, no current
\* round and the score 0.
C4_ReturnClearsSession ==
    [][(status # DIFFICULTY_SELECTION /\ status' = DIFFICULTY_SELECTION)
          => (pool' = <<>> /\ currentRound' = Null /\ score' = 0)]_vars

\* C5: the score is never negative and never decreases, and it changes only
\* by +1, in a step that records the target's common name as the choice of
\* a round in GUESSING.
C5_ScoreOnlyByCorrectGuess ==
    /\ [](score >= 0)
    /\ [][/\ score' >= score
          /\ score' # score =>
                /\ score' = score + 1
                /\ status = GUESSING
                /\ currentRound # Null
                /\ selectedOption = Null
                /\ selectedOption' = Some(TargetName)
                /\ isCorrect' = Some(TRUE)]_vars

C5_Witness == score >= 1 /\ isCorrect = Some(TRUE) /\ status = LOADING /\ springReqs # <<>>

\* C6: while every guess so far was correct, the score is the number of
\* guesses, whatever became of the after-image requests.
C6_ScoreEqualsStreak == streak >= 0 => score = streak

C6_Witness ==
    /\ streak = 2
    /\ score = 2
    /\ status = RESULT
    /\ Val(currentRound).springImageUrl = Null

\* C7: while a choice stays recorded it is the same choice with the same
\* verdict, the score does not change and no after-image request is issued.
C7_OneGuessPerRound ==
    [][(selectedOption # Null /\ selectedOption' # Null) =>
          /\ selectedOption' = selectedOption
          /\ isCorrect' = isCorrect
          /\ score' = score
          /\ springReqs' \in {springReqs} \cup {Remove(springReqs, k) : k \in 1..Len(springReqs)}]_vars

C7_Witness == status = RESULT /\ selectedOption # Null /\ isCorrect = Some(FALSE) /\ score >= 1

\* C8: the first round of a pool is requested for the pool's first specimen;
\* advancing from RESULT requests the round of the specimen that follows the
\* target in the pool, or, after the last one, a new pool for the difficulty
\* being played; and a round that starts is the round that was requested.
C8_PoolOrder ==
    /\ [][(pool' # pool /\ Len(pool') > 0) =>
             autumnReqs' = Append(autumnReqs, [target |-> pool'[1], currentPool |-> pool'])]_vars
    /\ [][(status = RESULT /\ status' \notin {RESULT, DIFFICULTY_SELECTION}) =>
             /\ currentRound # Null
             /\ \E i \in 1..Len(pool) : pool[i].id = Val(currentRound).targetTree.id
             /\ \A i \in 1..Len(pool) :
                   pool[i].id = Val(currentRound).targetTree.id =>
                      IF i < Len(pool)
                      THEN /\ autumnReqs' = Append(autumnReqs,
                                               [target |-> pool[i + 1], currentPool |-> pool])
                           /\ poolReqs' = poolReqs
                      ELSE /\ difficulty # Null
                           /\ difficulty' = difficulty
                           /\ poolReqs' = Append(poolReqs, [difficulty |-> Val(difficulty)])
                           /\ autumnReqs' = autumnReqs]_vars
    /\ [][(status # GUESSING /\ status' = GUESSING) =>
             /\ Len(autumnReqs) = 1
             /\ autumnReqs' = <<>>
             /\ Val(currentRound').targetTree = autumnReqs[1].target]_vars

C8_Witness ==
    /\ status = LOADING
    /\ poolReqs # <<>>
    /\ Len(pool) = 3
    /\ currentRound # Null
    /\ Val(currentRound).targetTree.id = pool[3].id
    /\ loadingStep = TrailStep(Val(difficulty))

\* C9: a correct guess moves to LOADING with the after image of the target
\* requested; when that request completes, with an image or with a failure,
\* the status becomes RESULT; with an image, the round then holds both the
\* before image it had and the after image.
C9_RevealReachesResult ==
    /\ [][(selectedOption = Null /\ selectedOption' # Null /\ isCorrect' = Some(TRUE)) =>
             /\ status' = LOADING
             /\ springReqs' = Append(springReqs,
                    [description |-> Val(currentRound).targetTree.springDescription])]_vars
    /\ [][Len(springReqs') < Len(springReqs) => status' = RESULT]_vars
    /\ [][\A k \in 1..Len(springReqs) :
             SpringImageArrives(k) =>
                /\ currentRound' # Null
                /\ Val(currentRound').autumnImageUrl = Val(currentRound).autumnImageUrl
                /\ Val(currentRound').autumnImageUrl =
                      TreeImage(Val(currentRound').targetTree.autumnDescription, "autumn")
                /\ Val(currentRound').springImageUrl =
                      Some(TreeImage(Val(currentRound').targetTree.springDescription, "spring"))]_vars

C9_Witness ==
    /\ status = RESULT
    /\ isCorrect = Some(TRUE)
    /\ Val(currentRound).springImageUrl # Null

\* C10: when the after-image request ends without an after image, the status
\* becomes RESULT, the round is unchanged with its after image absent, the
\* image shown is the before image, and the score keeps the guess's increment.
C10_AfterImageFailureDegrades ==
    [][(/\ Len(springReqs') < Len(springReqs)
        /\ currentRound' # Null
        /\ Val(currentRound').springImageUrl = Null) =>
          /\ status' = RESULT
          /\ currentRound' = currentRound
          /\ isCorrect' = Some(TRUE)
          /\ DisplayedImage' = Val(currentRound).autumnImageUrl
          /\ score' = score
          /\ score >= 1]_vars

C10_Witness ==
    /\ status = RESULT
    /\ isCorrect = Some(TRUE)
    /\ Val(currentRound).springImageUrl = Null
    /\ DisplayedImage = Val(currentRound).autumnImageUrl
    /\ score = 1

\* C11: a guess other than the target's common name, taken in GUESSING, moves
\* to RESULT in that step with the verdict false, issues no request, and
\* leaves the score and the round (its after image absent) unchanged.
C11_WrongGuessDirectResult ==
    [][(/\ selectedOption = Null
        /\ selectedOption' # Null
        /\ selectedOption' # Some(TargetName)) =>
          /\ status = GUESSING
          /\ status' = RESULT
          /\ isCorrect' = Some(FALSE)
          /\ score' = score
          /\ currentRound' = currentRound
          /\ Val(currentRound).springImageUrl = Null
          /\ <<poolReqs, autumnReqs, springReqs, factReqs>>' =
                <<poolReqs, autumnReqs, springReqs, factReqs>>]_vars

C11_Witness ==
    /\ status = RESULT
    /\ selectedOption # Null
    /\ selectedOption # Some(TargetName)
    /\ Val(currentRound).springImageUrl = Null
    /\ springReqs = <<>>
    /\ score = 0

\* C12: in GUESSING there is a current round, no before-image request is
\* outstanding, and the round's before image is the image fetched for the
\* autumn description of its target.
C12_GuessingHasBeforeImage ==
    status = GUESSING =>
        /\ currentRound # Null
        /\ autumnReqs = <<>>
        /\ Val(currentRound).autumnImageUrl =
              TreeImage(Val(currentRound).targetTree.autumnDescription, "autumn")

C12_Witness ==
    /\ status = GUESSING
    /\ Len(pool) >= 2
    /\ Val(currentRound).targetTree.id = pool[2].id

\* C13: a pool request that ends without a round being asked for, and a
\* before-image request that ends without a new round, leave the status
\* ERROR; and in ERROR no pool or before-image request is outstanding, so
\* the round is never opened for guessing.
C13_LoadFailureIsError ==
    /\ [][(Len(poolReqs') < Len(poolReqs) /\ Len(autumnReqs') = Len(autumnReqs))
             => status' = ERROR]_vars
    /\ [][(Len(autumnReqs') < Len(autumnReqs) /\ currentRound' = currentRound)
             => status' = ERROR]_vars
    /\ [](status = ERROR => (poolReqs = <<>> /\ autumnReqs = <<>>))

C13_Witness ==
    /\ status = ERROR
    /\ now = 1
    /\ loadingStep = TrailStep(Val(difficulty))
    /\ currentRound # Null
    /\ Val(currentRound).targetTree.id = pool[Len(pool)].id

\* C14: in ERROR no option button, no control of the result panel and no
\* difficulty button is offered, and the control that returns to the
\* difficulty selection is offered.
C14_ErrorHasOneExit ==
    status = ERROR =>
        /\ ~OptionButtonsEnabled
        /\ ~ResultPanelShown
        /\ ~DifficultyButtonsShown
        /\ StandaloneTrailheadControlsShown

\* C15: in every status other than DIFFICULTY_SELECTION itself, LOADING
\* included, the control that returns to the difficulty selection is offered.
C15_ReturnAlwaysOffered ==
    status # DIFFICULTY_SELECTION => TrailheadControlsShown

\* C16: at most one fact request is outstanding at any time, one is
\* outstanding exactly while isFactLoading is set, and while it is the
\* "New Fact" button is not live, whatever round is being shown.
C16_OneFactRequest ==
    /\ Len(factReqs) <= 1
    /\ isFactLoading <=> (Len(factReqs) = 1)
    /\ factReqs # <<>> => ~NewFactButtonEnabled

C16_Witness ==
    /\ Len(factReqs) = 1
    /\ status = RESULT
    /\ isCorrect = Some(TRUE)
    /\ CurrentTargetId # Some(factReqs[1].id)

\* C17: a step that issues a fact request is taken in RESULT and changes
\* neither the status nor the round; a step that ends one leaves the status
\* as it is and the round as it is but for the fact, which is the previous
\* one or a text the provider returns; score and pool change in neither.
C17_RegenerateFactFrame ==
    [][(factReqs' # factReqs) =>
          /\ status' = status
          /\ score' = score
          /\ pool' = pool
          /\ currentRound # Null
          /\ IF Len(factReqs') > Len(factReqs)
             THEN /\ status = RESULT
                  /\ currentRound' = currentRound
             ELSE \/ currentRound' = currentRound
                  \/ \E newFact \in Facts :
                        currentRound' =
                           Some([Val(currentRound) EXCEPT !.targetTree.funFact = newFact])]_vars

C17_Witness ==
    /\ status = RESULT
    /\ factReqs = <<>>
    /\ ~isFactLoading
    /\ Val(currentRound).targetTree.funFact = "fact1"
    /\ Val(currentRound).springImageUrl # Null

\* C18: the step that leaves DIFFICULTY_SELECTION by choosing a difficulty
\* leaves the score 0, and no other step changes a score to 0.
C18_DifficultyResetsScore ==
    /\ [][(status = DIFFICULTY_SELECTION /\ status' = LOADING) => score' = 0]_vars
    /\ [][(score # 0 /\ score' = 0) =>
             (status = DIFFICULTY_SELECTION /\ status' = LOADING)]_vars

\* C19: a step that ends an after-image request or a fact request changes
\* neither the pool, nor the target, nor the index nextRound computes, nor
\* the difficulty, nor the score; the step that issues the after-image
\* request is the one that adds the guess's point; and in the result of a
\* correct guess whose after image is absent the target is the specimen of
\* the pool just before the index nextRound computes.
C19_PartialFailureKeepsPosition ==
    /\ [][(Len(springReqs') < Len(springReqs) \/ Len(factReqs') < Len(factReqs)) =>
             /\ pool' = pool
             /\ CurrentTargetId' = CurrentTargetId
             /\ NextIdx' = NextIdx
             /\ difficulty' = difficulty
             /\ score' = score]_vars
    /\ [][Len(springReqs') > Len(springReqs) => score' = score + 1]_vars
    /\ []((/\ status = RESULT
           /\ isCorrect = Some(TRUE)
           /\ Val(currentRound).springImageUrl = Null) =>
             /\ NextIdx \in 1..Len(pool)
             /\ pool[NextIdx].id = Val(currentRound).targetTree.id
             /\ score >= 1)

C19_Witness ==
    /\ status = LOADING
    /\ Len(autumnReqs) = 1
    /\ Len(pool) >= 2
    /\ currentRound # Null
    /\ isCorrect = Some(TRUE)
    /\ Val(currentRound).springImageUrl = Null
    /\ Val(currentRound).targetTree.id = pool[1].id
    /\ autumnReqs[1].target = pool[2]
    /\ score = 1

\* C20: at most one callback is held by requestAnimationFrame at any time;
\* the one held was requested by the run of the render effect whose cleanup
\* React holds, for a Globe that is rendered with land data, and it is the
\* one that cleanup would cancel.
C20_OneLoopPerGlobe ==
    /\ Cardinality(frames) <= 1
    /\ \A f \in frames :
          /\ globeMounted
          /\ landData # Null
          /\ currentEffect = Some(f.effect)
          /\ closures[f.effect].animationFrameId = f.id
          /\ Some(closures[f.effect].locations) = locations

C20_Witness ==
    /\ Len(closures) >= 2
    /\ closures[1].rotation >= 2
    /\ closures[1].locations # closures[2].locations
    /\ closures[2].rotation >= 2
    /\ Cardinality(frames) = 1

\* C21: when the run of the render effect that React holds changes (the
\* Globe is removed, or its habitats array is swapped), no callback held
\* before is held after; the rotation of a run other than the one React
\* holds never changes; and no callback is held while no Globe is rendered.
C21_TeardownCancelsLoop ==
    /\ [][currentEffect' # currentEffect => frames \cap frames' = {}]_vars
    /\ [][\A i \in 1..Len(closures) :
             closures'[i].rotation # closures[i].rotation => currentEffect = Some(i)]_vars
    /\ [](~globeMounted => frames = {})

C21_Witness ==
    /\ ~globeMounted
    /\ frames = {}
    /\ Len(closures) = 2
    /\ closures[1].rotation >= 2
    /\ closures[2].rotation >= 2

\* C22: a step that requests a frame for the run React already holds adds
\* exactly one increment of 0.25 degrees to that run's rotation; a run
\* starts with one increment; and while React holds no run no rotation
\* changes.
C22_RotationAdvances ==
    /\ [][(nextFrameId' # nextFrameId /\ currentEffect' = currentEffect) =>
             /\ currentEffect # Null
             /\ closures'[Val(currentEffect)].rotation =
                   closures[Val(currentEffect)].rotation + 1]_vars
    /\ [][Len(closures') > Len(closures) =>
             closures'[Len(closures')].rotation = 1]_vars
    /\ [][(currentEffect = Null /\ currentEffect' = Null) => closures' = closures]_vars

C22_Witness ==
    /\ currentEffect # Null
    /\ closures[Val(currentEffect)].rotation = 4
    /\ Cardinality(frames) = 1

\* C23: a Globe whose land request has ended, with or without data, has a
\* render loop running.
C23_GlobeRendersWithoutLand ==
    (globeMounted /\ landFetch = "done") => frames # {}

\* C24: on the canvas of a running loop a habitat has its marker exactly
\* when its great-circle distance to the point [-rotation, 15] is strictly
\* less than a quarter turn; a habitat at exactly a quarter turn, or
\* further, has none; and without a loop the canvas has no marker.
C24_MarkerIffInsideDisk ==
    IF currentEffect # Null
    THEN LET run == closures[Val(currentEffect)]
             centre == [lng |-> -run.rotation, lat |-> Tilt]
         IN  \A i \in 1..Len(Habitats(run.locations)) :
                i \in markers <=>
                   GeoDistanceToQuarterTurn(Habitats(run.locations)[i], centre) = -1
    ELSE markers = {}

C24_Witness ==
    /\ currentEffect # Null
    /\ closures[Val(currentEffect)].locations = "habitatsA"
    /\ closures[Val(currentEffect)].rotation = 2
    /\ GeoDistanceToQuarterTurn(Habitats("habitatsA")[1],
                                [lng |-> -2, lat |-> Tilt]) = 0
    /\ markers = {3}

\* C25: while an after-image request is outstanding it is the only one, the
\* recorded choice is the target's common name and the verdict is true; and
\* the step that issues one is the step that records that choice, for the
\* spring description of the round's target.
C25_RevealOnlyAfterCorrectGuess ==
    /\ [](springReqs # <<>> =>
             /\ Len(springReqs) = 1
             /\ currentRound # Null
             /\ selectedOption = Some(TargetName)
             /\ isCorrect = Some(TRUE)
             /\ springReqs[1].description = Val(currentRound).targetTree.springDescription)
    /\ [][Len(springReqs') > Len(springReqs) =>
             /\ springReqs = <<>>
             /\ selectedOption = Null
             /\ selectedOption' = Some(TargetName)]_vars
    /\ [][(selectedOption' # selectedOption /\ selectedOption' # Some(TargetName)) =>
             springReqs' = <<>>]_vars

C25_Witness ==
    /\ Len(springReqs) = 1
    /\ status = LOADING
    /\ score = 2
    /\ selectedOption = Some(TargetName)

C27_OneRequestPerSlot ==
    /\ Len(poolReqs) + Len(autumnReqs) + Len(springReqs) <= 1
    /\ Len(factReqs) <= 1

C27_Witness ==
    /\ Len(poolReqs) = 1
    /\ Len(factReqs) = 1
    /\ autumnReqs = <<>>
    /\ springReqs = <<>>
    /\ now = 1

C29_SessionLoops ==
    /\ [](ResultPanelShown =>
             ENABLED (/\ NextRound
                      /\ status' = LOADING
                      /\ Len(poolReqs') + Len(autumnReqs') = 1
                      /\ UNCHANGED <<globeVars, apiKeyEffect>>))
    /\ ((status = LOADING /\ springReqs = <<>>) ~> (status \in {GUESSING, ERROR}))

C29_Witness ==
    /\ status = GUESSING
    /\ now = 2
    /\ score = 2
    /\ Val(currentRound).targetTree.id = pool[1].id

\* C30: the step at which an empty pool arrives leaves the status ERROR,
\* asks for no before image and leaves the round as it was; and the status
\* is never GUESSING while the pool held is empty.
C30_EmptyPoolIsError ==
    /\ [][(pool' = <<>> /\ now' # now) =>
             /\ Len(poolReqs') < Len(poolReqs)
             /\ status' = ERROR
             /\ autumnReqs' = autumnReqs
             /\ autumnReqs = <<>>
             /\ currentRound' = currentRound]_vars
    /\ [](status = GUESSING => pool # <<>>)

C30_Witness ==
    /\ status = ERROR
    /\ pool = <<>>
    /\ now = 2
    /\ currentRound # Null
    /\ poolReqs = <<>>

\* C31: the status is LOADING exactly while a pool request or an image
\* request is outstanding, and a step that ends one is taken in LOADING.
C31_LoadingIffRequest ==
    /\ [](status = LOADING <=> (poolReqs # <<>> \/ autumnReqs # <<>> \/ springReqs # <<>>))
    /\ [][(\/ Len(poolReqs') < Len(poolReqs)
           \/ Len(autumnReqs') < Len(autumnReqs)
           \/ Len(springReqs') < Len(springReqs)) =>
             /\ status = LOADING
             /\ (status' = LOADING => autumnReqs' # <<>>)]_vars

C31_Witness ==
    /\ status = LOADING
    /\ poolReqs = <<>>
    /\ springReqs = <<>>
    /\ Len(autumnReqs) = 1
    /\ now = 2
    /\ factReqs # <<>>

\* C32: in GUESSING and in RESULT the target of the round is a specimen of
\* the pool held, at exactly one index, and the index nextRound computes is
\* the one after it.
C32_TargetInPool ==
    status \in {GUESSING, RESULT} =>
        /\ currentRound # Null
        /\ \E i \in 1..Len(pool) :
              /\ pool[i].id = Val(currentRound).targetTree.id
              /\ \A j \in 1..Len(pool) : pool[j].id = pool[i].id => j = i
              /\ NextIdx = i

C32_Witness ==
    /\ status = RESULT
    /\ now = 2
    /\ Len(pool) = 3
    /\ NextIdx = 3

\* C33: the round that opens for guessing has the pool held as it was when
\* the round was asked for, and its options are the target's common name
\* with up to two common names of other specimens of that pool; so for the
\* first round after a pool arrives, of the pool that arrived.
C33_OptionsFromNewPool ==
    [][(status # GUESSING /\ status' = GUESSING) =>
          /\ pool' = pool
          /\ Val(currentRound').options \in
                OptionLists(Val(currentRound').targetTree, pool)
          /\ \A name \in DOMAIN Val(currentRound').options :
                \E i \in 1..Len(pool) : pool[i].commonName = name]_vars

C33_Witness ==
    /\ status = GUESSING
    /\ now = 2
    /\ Len(pool) = 2
    /\ Val(currentRound).targetTree.id = pool[1].id
    /\ Count(Val(currentRound).options) = 2
    /\ score = 2

\* C34: in GUESSING no choice and no verdict is recorded; in RESULT a choice
\* is recorded and the verdict is whether it is the target's common name;
\* and a round has an after image only under a true verdict.
C34_GuessBookkeeping ==
    /\ status = GUESSING => (selectedOption = Null /\ isCorrect = Null)
    /\ status = RESULT =>
          /\ selectedOption # Null
          /\ isCorrect = Some(selectedOption = Some(TargetName))
    /\ (currentRound # Null /\ Val(currentRound).springImageUrl # Null) =>
          isCorrect = Some(TRUE)

C34_Witness ==
    /\ status = GUESSING
    /\ score = 1
    /\ streak = -1
    /\ selectedOption = Null

\* C35: a step that issues a fact request sets isFactLoading, a step that
\* ends one clears it, no other step changes it; and in the result panel
\* of a correct guess with no fact request outstanding the "New Fact"
\* button is live.
C35_FactFlagFollowsRequest ==
    /\ [][Len(factReqs') > Len(factReqs) => (~isFactLoading /\ isFactLoading')]_vars
    /\ [][Len(factReqs') < Len(factReqs) => (isFactLoading /\ ~isFactLoading')]_vars
    /\ [][isFactLoading' # isFactLoading => factReqs' # factReqs]_vars
    /\ []((ResultPanelShown /\ isCorrect = Some(TRUE) /\ factReqs = <<>>) =>
             NewFactButtonEnabled)

C35_Witness ==
    /\ Len(factReqs) = 1
    /\ isFactLoading
    /\ status = RESULT
    /\ Val(currentRound).targetTree.funFact = "fact1"

\* C36: a step that changes the status to ERROR changes neither the score,
\* nor the pool, nor the round.
C36_ErrorChangesOnlyStatus ==
    [][(status # ERROR /\ status' = ERROR) =>
          /\ score' = score
          /\ pool' = pool
          /\ currentRound' = currentRound]_vars

\* C37: a Globe is rendered exactly while the status is RESULT under a true
\* verdict, and an animation callback is held only then, for a recorded
\* choice that is the target's common name and with land data loaded.
C37_LoopOnlyInCorrectResult ==
    /\ globeMounted <=> (status = RESULT /\ isCorrect = Some(TRUE))
    /\ frames # {} =>
          /\ status = RESULT
          /\ isCorrect = Some(TRUE)
          /\ selectedOption = Some(TargetName)
          /\ landData # Null

C37_Witness ==
    /\ status = RESULT
    /\ isCorrect = Some(FALSE)
    /\ frames = {}
    /\ Len(closures) = 1
    /\ closures[1].rotation >= 2
    /\ score = 1

\* C38: a step that issues or ends a fact request changes nothing of the
\* Globe (no run of the render effect added, none cancelled, no rotation
\* changed), and no step of the App changes the rotation of a run.
C38_FactLeavesGlobeAlone ==
    /\ [][factReqs' # factReqs =>
             /\ closures' = closures
             /\ currentEffect' = currentEffect
             /\ frames' = frames
             /\ nextFrameId' = nextFrameId
             /\ locations' = locations
             /\ globeMounted' = globeMounted]_vars
    /\ [][appVars' # appVars =>
             \A i \in 1..Len(closures) : closures'[i].rotation = closures[i].rotation]_vars

C38_Witness ==
    /\ globeMounted
    /\ Len(closures) = 1
    /\ closures[1].rotation >= 3
    /\ frames # {}
    /\ Val(currentRound).targetTree.funFact = "fact1"
    /\ factReqs # <<>>

====
